---- MODULE Spec2Model ----
(***************************************************************************)
(* Model of the coil optimisation endpoint of server.js                    *)
(* (POST /api/optimize/coil), of its helper selectCoilProduct, of its copy  *)
(* in GET /api/test/optimize and of the token state of authenticate.       *)
(*                                                                         *)
(* JavaScript numbers are modelled as exact extended rationals: a sign, a  *)
(* numerator and a denominator, with n/0 for the infinities, 0/0 for NaN   *)
(* and a signed zero, so that division by zero, Math.floor, Math.ceil and  *)
(* toFixed behave as in the language.  The binary rounding of IEEE-754     *)
(* doubles is not modelled: every finite result is exact.                  *)
(* JavaScript strings that the code inspects (colour names, product ids)   *)
(* are sequences of one-character strings.                                 *)
(***************************************************************************)
EXTENDS Integers, Sequences, FiniteSets, TLC

(***************************************************************************)
(* Bound of the model: the longest order-line list a request carries.      *)
(***************************************************************************)
MaxItems == 2

----------------------------------------------------------------------------
(* JavaScript numbers *)

RECURSIVE GCD(_, _)
GCD(a, b) == IF b = 0 THEN a ELSE GCD(b, a % b)

NaN == [s |-> 1, n |-> 0, d |-> 0]

Infinity == [s |-> 1, n |-> 1, d |-> 0]

\* the number s * n / d in lowest terms; n/0 is an infinity and 0/0 is NaN
Norm(s, n, d) ==
    IF d = 0
    THEN IF n = 0 THEN NaN ELSE [s |-> s, n |-> 1, d |-> 0]
    ELSE IF n = 0
         THEN [s |-> s, n |-> 0, d |-> 1]
         ELSE LET g == GCD(n, d) IN [s |-> s, n |-> n \div g, d |-> d \div g]

\* the number literal n/d (n an integer, d a positive integer)
Lit(n, d) == IF n < 0 THEN Norm(-1, -n, d) ELSE Norm(1, n, d)

IsNaN(x) == x.n = 0 /\ x.d = 0

IsInf(x) == x.n # 0 /\ x.d = 0

IsFinite(x) == x.d # 0

\* unary minus
Neg(x) == IF IsNaN(x) THEN NaN ELSE [x EXCEPT !.s = -x.s]

\* x * y (common factors are cancelled before the products are formed)
Mul(x, y) ==
    IF x.n = 0 \/ x.d = 0 \/ y.n = 0 \/ y.d = 0
    THEN Norm(x.s * y.s, x.n * y.n, x.d * y.d)
    ELSE LET g1 == GCD(x.n, y.d)
             g2 == GCD(y.n, x.d)
         IN  [s |-> x.s * y.s,
              n |-> (x.n \div g1) * (y.n \div g2),
              d |-> (x.d \div g2) * (y.d \div g1)]

\* 1 / x
Recip(x) == IF IsNaN(x) THEN NaN ELSE [s |-> x.s, n |-> x.d, d |-> x.n]

\* x / y
Div(x, y) == Mul(x, Recip(y))

\* x + y
Add(x, y) ==
    IF IsNaN(x) \/ IsNaN(y) THEN NaN
    ELSE IF IsInf(x) THEN (IF IsInf(y) /\ y.s # x.s THEN NaN ELSE x)
    ELSE IF IsInf(y) THEN y
    ELSE LET g == GCD(x.d, y.d)
             num == x.s * x.n * (y.d \div g) + y.s * y.n * (x.d \div g)
             den == (x.d \div g) * y.d
         IN  IF num = 0
             THEN [s |-> IF x.s = -1 /\ y.s = -1 THEN -1 ELSE 1, n |-> 0, d |-> 1]
             ELSE IF num < 0 THEN Norm(-1, -num, den) ELSE Norm(1, num, den)

\* x - y
Sub(x, y) == Add(x, Neg(y))

\* x >= y
Ge(x, y) ==
    IF IsNaN(x) \/ IsNaN(y) THEN FALSE
    ELSE IF IsInf(x) THEN x.s = 1 \/ (IsInf(y) /\ y.s = -1)
    ELSE IF IsInf(y) THEN y.s = -1
    ELSE LET g == GCD(x.d, y.d)
         IN  x.s * x.n * (y.d \div g) >= y.s * y.n * (x.d \div g)

\* x === y on numbers
StrictEq(x, y) == Ge(x, y) /\ Ge(y, x)

\* Math.floor(x)
Floor(x) ==
    IF ~IsFinite(x) THEN x
    ELSE LET q == x.n \div x.d
             exact == x.n % x.d = 0
         IN  [s |-> x.s, n |-> IF x.s = 1 \/ exact THEN q ELSE q + 1, d |-> 1]

\* Math.ceil(x)
Ceil(x) ==
    IF ~IsFinite(x) THEN x
    ELSE LET q == x.n \div x.d
             exact == x.n % x.d = 0
         IN  [s |-> x.s, n |-> IF x.s = -1 \/ exact THEN q ELSE q + 1, d |-> 1]

RECURSIVE Pow10(_)
Pow10(k) == IF k = 0 THEN 1 ELSE 10 * Pow10(k - 1)

\* x.toFixed(digits): the decimal string of x rounded to that many digits,
\* ties to the larger magnitude; held as its sign, its digits as an integer
\* (units of 10^-digits) and a suffix appended by the caller
ToFixed(x, digits) ==
    IF IsNaN(x)
    THEN [text |-> "NaN", neg |-> FALSE, units |-> 0, digits |-> digits, suffix |-> ""]
    ELSE IF IsInf(x)
    THEN [text |-> "Infinity", neg |-> x.s = -1, units |-> 0, digits |-> digits, suffix |-> ""]
    ELSE [text |-> "decimal",
          neg |-> x.s = -1 /\ x.n # 0,
          units |-> (x.n \div x.d) * Pow10(digits)
                    + (2 * (x.n % x.d) * Pow10(digits) + x.d) \div (2 * x.d),
          digits |-> digits,
          suffix |-> ""]

\* string + '%'
Percent(str) == [str EXCEPT !.suffix = "%"]

\* String(x) + '%' for an integer-valued number x
NumberPercent(x) == Percent(ToFixed(x, 0))

----------------------------------------------------------------------------
(* JavaScript strings *)

UpperCase == <<"A", "B", "C", "D", "E", "F", "G", "H", "I", "J", "K", "L", "M",
               "N", "O", "P", "Q", "R", "S", "T", "U", "V", "W", "X", "Y", "Z">>

LowerCase == <<"a", "b", "c", "d", "e", "f", "g", "h", "i", "j", "k", "l", "m",
               "n", "o", "p", "q", "r", "s", "t", "u", "v", "w", "x", "y", "z">>

\* the lower-case letter of each upper-case letter
LowerOf ==
    [c \in {UpperCase[k] : k \in 1..Len(UpperCase)} |->
        LowerCase[CHOOSE k \in 1..Len(UpperCase) : UpperCase[k] = c]]

\* String.prototype.toLowerCase
toLowerCase(str) ==
    [i \in 1..Len(str) |-> IF str[i] \in DOMAIN LowerOf THEN LowerOf[str[i]] ELSE str[i]]

----------------------------------------------------------------------------
(* Process-wide configuration *)

BUSINESS_CONFIG ==
    [scrapFactor |-> Lit(5, 100),
     coilWidths |-> <<Lit(20, 1), Lit(43875, 1000)>>,
     defaultGauge |-> Lit(29, 1),
     standardRollLength |-> Lit(100, 1),
     pricing |-> [marginPercent |-> Lit(30, 100), laborPerFoot |-> Lit(50, 100)]]

\* PRODUCT_CATEGORIES.colors, as Object.entries lists it
PRODUCT_CATEGORIES ==
    [colors |-> <<
        [code |-> <<"A", "G">>, name |-> <<"A", "s", "h", " ", "G", "r", "a", "y">>],
        [code |-> <<"A", "R", "W">>, name |-> <<"A", "r", "c", "t", "i", "c", " ", "W", "h", "i", "t", "e">>],
        [code |-> <<"A", "W">>, name |-> <<"A", "l", "a", "m", "o", " ", "W", "h", "i", "t", "e">>],
        [code |-> <<"B">>, name |-> <<"B", "r", "o", "w", "n">>],
        [code |-> <<"B", "E", "R">>, name |-> <<"B", "e", "r", "r", "y">>],
        [code |-> <<"B", "K">>, name |-> <<"B", "l", "a", "c", "k">>],
        [code |-> <<"B", "R">>, name |-> <<"B", "r", "i", "c", "k", " ", "R", "e", "d">>],
        [code |-> <<"B", "S">>, name |-> <<"B", "u", "r", "n", "i", "s", "h", "e", "d", " ", "S", "l", "a", "t", "e">>],
        [code |-> <<"B", "U", "R">>, name |-> <<"B", "u", "r", "g", "u", "n", "d", "y">>],
        [code |-> <<"B", "W">>, name |-> <<"B", "o", "n", "e", " ", "W", "h", "i", "t", "e">>],
        [code |-> <<"O", "B">>, name |-> <<"O", "c", "e", "a", "n", " ", "B", "l", "u", "e">>],
        [code |-> <<"C", "H">>, name |-> <<"C", "h", "a", "r", "c", "o", "a", "l">>],
        [code |-> <<"E", "G">>, name |-> <<"E", "v", "e", "r", "g", "r", "e", "e", "n">>],
        [code |-> <<"G", "B">>, name |-> <<"G", "a", "l", "l", "e", "r", "y", " ", "B", "l", "u", "e">>],
        [code |-> <<"G", "A", "L">>, name |-> <<"G", "a", "l", "v", "a", "l", "u", "m", "e">>]
    >>]

\* the base cost per foot written into the handler
MaterialCostPerFoot == Lit(385, 100)

\* the coil width a request gets when it names none
DefaultCoilWidth == Lit(43875, 1000)

UNSPECIFIED == <<"U", "N", "S", "P", "E", "C", "I", "F", "I", "E", "D">>

CUSTOM == <<"C", "U", "S", "T", "O", "M">>

----------------------------------------------------------------------------
(* Requests *)

AshGray == <<"A", "s", "h", " ", "G", "r", "a", "y">>

ashgray == <<"a", "s", "h", " ", "g", "r", "a", "y">>

\* names every object inherits from Object.prototype (one of them)
ObjectPrototypeKeys == {<<"c", "o", "n", "s", "t", "r", "u", "c", "t", "o", "r">>}

\* quantity, length (feet) and width (inches) of well-formed order lines
LineShapes ==
    {[quantity |-> Lit(45, 1), length |-> Lit(16, 1),   width |-> Lit(43875, 1000)],
     [quantity |-> Lit(15, 1), length |-> Lit(10, 1),   width |-> Lit(14, 1)],
     [quantity |-> Lit(7, 1),  length |-> Lit(105, 10), width |-> Lit(20, 1)],
     [quantity |-> Lit(10, 1), length |-> Lit(10, 1),   width |-> Lit(43875, 1000)]}

\* order lines with a zero quantity, a zero length, a zero or a negative width
BadShapes ==
    {[quantity |-> Lit(0, 1), length |-> Lit(10, 1), width |-> Lit(14, 1)],
     [quantity |-> Lit(7, 1), length |-> Lit(0, 1),  width |-> Lit(43875, 1000)],
     [quantity |-> Lit(7, 1), length |-> Lit(10, 1), width |-> Lit(0, 1)],
     [quantity |-> Lit(1, 1), length |-> Lit(1, 1),  width |-> Lit(-2, 1)]}

\* an order line with a color property
Line(c, sh) ==
    [productId |-> "A4AG", color |-> c, quantity |-> sh.quantity,
     length |-> sh.length, width |-> sh.width]

\* order lines: well-formed ones in a table colour, in its lower-case
\* spelling and with no color property; one with the empty string and one
\* with an inherited property name as colour; ill-formed ones
Lines ==
    {Line(c, sh) : c \in {AshGray, ashgray}, sh \in LineShapes}
    \cup {[productId |-> "A4AG", quantity |-> sh.quantity,
           length |-> sh.length, width |-> sh.width] : sh \in LineShapes}
    \cup {Line(c, [quantity |-> Lit(15, 1), length |-> Lit(10, 1), width |-> Lit(14, 1)]) :
             c \in {<<>>} \cup ObjectPrototypeKeys}
    \cup {Line(AshGray, sh) : sh \in BadShapes}

ItemLists == UNION {[1..k -> Lines] : k \in 0..MaxItems}

CoilWidths == {Lit(20, 1), Lit(0, 1), Lit(-1, 1)}

\* request bodies: items and coilWidth are each present or absent
Bodies ==
    {[items |-> its, coilWidth |-> w] : its \in ItemLists, w \in CoilWidths}
    \cup {[items |-> its] : its \in ItemLists}
    \cup {[coilWidth |-> w] : w \in CoilWidths}
    \cup {<<>>}

----------------------------------------------------------------------------
(* POST /api/optimize/coil *)

\* noItems without the test for an empty list
noItems_absentOnly(reqBody) == ~("items" \in DOMAIN reqBody)

\* !items || items.length === 0
noItems(reqBody) == ~("items" \in DOMAIN reqBody) \/ Len(reqBody.items) = 0

\* colorOf with the key folded to lower case
colorOf_lower(item) ==
    IF "color" \in DOMAIN item /\ item.color # <<>>
    THEN toLowerCase(item.color) ELSE UNSPECIFIED

\* item.color || 'UNSPECIFIED'
colorOf(item) ==
    IF "color" \in DOMAIN item /\ item.color # <<>> THEN item.color ELSE UNSPECIFIED

\* position of the own property color in colorGroups, 0 when it has none
keyIndex(groups, color) ==
    IF \E k \in 1..Len(groups) : groups[k].color = color
    THEN CHOOSE k \in 1..Len(groups) : groups[k].color = color
    ELSE 0

\* items.forEach(item => ... colorGroups[color].push(item)) from item i on.
\* colorGroups is an ordinary object: its own properties in insertion order,
\* each holding the positions of its lines in the request; a colour that
\* names an inherited property finds a value that has no push and throws.
RECURSIVE groupItems(_, _, _)
groupItems(items, i, groups) ==
    IF i > Len(items)
    THEN [threw |-> FALSE, groups |-> groups]
    ELSE LET color == colorOf(items[i])
             k == keyIndex(groups, color)
         IN  IF k # 0
             THEN groupItems(items, i + 1, [groups EXCEPT ![k].items = Append(@, i)])
             ELSE IF color \in ObjectPrototypeKeys
             THEN [threw |-> TRUE, groups |-> groups]
             ELSE groupItems(items, i + 1,
                             Append(groups, [color |-> color, items |-> <<i>>]))

colorGroups(items) == groupItems(items, 1, <<>>)

\* isFullWidth with > for >=
isFullWidth_strict(item, coilWidth) ==
    Ge(item.width, coilWidth) /\ ~Ge(coilWidth, item.width)

\* item.width >= coilWidth
isFullWidth(item, coilWidth) == Ge(item.width, coilWidth)

\* Math.floor(coilWidth / item.width)
piecesPerRowOf(item, coilWidth) == Floor(Div(coilWidth, item.width))

\* rowsNeededOf with Math.floor for Math.ceil
rowsNeededOf_floor(item, piecesPerRow) == Floor(Div(item.quantity, piecesPerRow))

\* Math.ceil(item.quantity / piecesPerRow)
rowsNeededOf(item, piecesPerRow) == Ceil(Div(item.quantity, piecesPerRow))

\* the pattern pushed for one line
pattern(item, coilWidth) ==
    IF isFullWidth(item, coilWidth)
    THEN [type |-> "Full Width",
          product |-> item.productId,
          quantity |-> item.quantity,
          lengthEach |-> item.length,
          totalFeet |-> Mul(item.quantity, item.length)]
    ELSE LET piecesPerRow == piecesPerRowOf(item, coilWidth)
             rowsNeeded == rowsNeededOf(item, piecesPerRow)
             feetNeeded == Mul(rowsNeeded, item.length)
         IN  [type |-> "Nested Trim",
              product |-> item.productId,
              quantity |-> item.quantity,
              width |-> item.width,
              piecesPerRow |-> piecesPerRow,
              rowsNeeded |-> rowsNeeded,
              lengthEach |-> item.length,
              totalFeet |-> feetNeeded,
              efficiency |->
                  Percent(ToFixed(Mul(Div(Mul(item.width, piecesPerRow), coilWidth),
                                      Lit(100, 1)), 1))]

\* linearFeet after the first i lines of a group: linearFeet += ... from 0
RECURSIVE linearFeetAfter(_, _)
linearFeetAfter(patterns, i) ==
    IF i = 0 THEN Lit(0, 1)
    ELSE Add(linearFeetAfter(patterns, i - 1), patterns[i].totalFeet)

\* getColorCode comparing the names as they are written
getColorCode_caseSensitive(colorName) ==
    LET colors == PRODUCT_CATEGORIES.colors
        hits == {k \in 1..Len(colors) : colors[k].name = colorName}
    IN  IF hits = {} THEN CUSTOM
        ELSE colors[CHOOSE k \in hits : \A j \in hits : k <= j].code

\* Reverse lookup from your color names to codes
getColorCode(colorName) ==
    LET colors == PRODUCT_CATEGORIES.colors
        hits == {k \in 1..Len(colors) :
                    toLowerCase(colors[k].name) = toLowerCase(colorName)}
    IN  IF hits = {} THEN CUSTOM
        ELSE colors[CHOOSE k \in hits : \A j \in hits : k <= j].code

\* Helper function to select appropriate coil product
selectCoilProduct(color, width) ==
    LET colorCode == getColorCode(color)
        widthPrefix == IF StrictEq(width, Lit(20, 1)) THEN <<"C", "O", "2", "0">> ELSE <<"C", "O", "4", "3", "8", "7", "5">>
        gauge == <<"2", "9">>
    IN  widthPrefix \o gauge \o colorCode

\* scrapAmountOf with the factor taken as a number of percent
scrapAmountOf_percent(linearFeet) ==
    Mul(linearFeet, Mul(BUSINESS_CONFIG.scrapFactor, Lit(100, 1)))

\* linearFeet * BUSINESS_CONFIG.scrapFactor
scrapAmountOf(linearFeet) == Mul(linearFeet, BUSINESS_CONFIG.scrapFactor)

\* coilsNeededOf with Math.round for Math.ceil
coilsNeededOf_round(totalNeeded) ==
    Floor(Add(Div(totalNeeded, BUSINESS_CONFIG.standardRollLength), Lit(1, 2)))

\* Math.ceil(totalNeeded / BUSINESS_CONFIG.standardRollLength)
coilsNeededOf(totalNeeded) == Ceil(Div(totalNeeded, BUSINESS_CONFIG.standardRollLength))

\* optimization[color] for one colour group
optimizeGroup(items, group, coilWidth) ==
    LET patterns == [j \in 1..Len(group.items) |-> pattern(items[group.items[j]], coilWidth)]
        linearFeet == linearFeetAfter(patterns, Len(patterns))
        scrapAmount == scrapAmountOf(linearFeet)
        totalNeeded == Add(linearFeet, scrapAmount)
        coilProduct == selectCoilProduct(group.color, coilWidth)
    IN  [color |-> group.color,
         items |-> group.items,
         patterns |-> patterns,
         baseLinearFeet |-> linearFeet,
         scrapFeet |-> scrapAmount,
         totalLinearFeet |-> totalNeeded,
         coilsNeeded |-> coilsNeededOf(totalNeeded),
         efficiency |-> Percent(ToFixed(Mul(Div(linearFeet, totalNeeded), Lit(100, 1)), 2)),
         recommendedCoil |-> coilProduct]

\* totalLinearFeet and totalWithScrap after the first k groups
RECURSIVE totalsAfter(_, _)
totalsAfter(optimization, k) ==
    IF k = 0 THEN [totalLinearFeet |-> Lit(0, 1), totalWithScrap |-> Lit(0, 1)]
    ELSE LET t == totalsAfter(optimization, k - 1)
         IN  [totalLinearFeet |-> Add(t.totalLinearFeet, optimization[k].baseLinearFeet),
              totalWithScrap |-> Add(t.totalWithScrap, optimization[k].totalLinearFeet)]

\* pricingOf with the margin multiplied in without the 1 +
pricingOf_noMarkup(totalWithScrap) ==
    LET materialCost == Mul(totalWithScrap, MaterialCostPerFoot)
        laborCost == Mul(totalWithScrap, BUSINESS_CONFIG.pricing.laborPerFoot)
        totalCost == Add(materialCost, laborCost)
        sellPrice == Mul(totalCost, BUSINESS_CONFIG.pricing.marginPercent)
    IN  [materialCost |-> ToFixed(materialCost, 2),
         laborCost |-> ToFixed(laborCost, 2),
         totalCost |-> ToFixed(totalCost, 2),
         sellPrice |-> ToFixed(sellPrice, 2),
         margin |-> ToFixed(Sub(sellPrice, totalCost), 2),
         marginPercent |->
            Percent(ToFixed(Mul(BUSINESS_CONFIG.pricing.marginPercent, Lit(100, 1)), 0))]

\* Calculate pricing: the pricing object of the summary
pricingOf(totalWithScrap) ==
    LET materialCost == Mul(totalWithScrap, MaterialCostPerFoot)
        laborCost == Mul(totalWithScrap, BUSINESS_CONFIG.pricing.laborPerFoot)
        totalCost == Add(materialCost, laborCost)
        sellPrice == Mul(totalCost, Add(Lit(1, 1), BUSINESS_CONFIG.pricing.marginPercent))
    IN  [materialCost |-> ToFixed(materialCost, 2),
         laborCost |-> ToFixed(laborCost, 2),
         totalCost |-> ToFixed(totalCost, 2),
         sellPrice |-> ToFixed(sellPrice, 2),
         margin |-> ToFixed(Sub(sellPrice, totalCost), 2),
         marginPercent |->
            Percent(ToFixed(Mul(BUSINESS_CONFIG.pricing.marginPercent, Lit(100, 1)), 0))]

\* the summary object of the response
summaryOf(optimization, coilWidth) ==
    LET t == totalsAfter(optimization, Len(optimization))
        totalLinearFeet == t.totalLinearFeet
        totalWithScrap == t.totalWithScrap
    IN  [totalLinearFeet |-> ToFixed(totalLinearFeet, 2),
         scrapFeet |-> ToFixed(Sub(totalWithScrap, totalLinearFeet), 2),
         totalWithScrap |-> ToFixed(totalWithScrap, 2),
         scrapPercent |-> NumberPercent(Mul(BUSINESS_CONFIG.scrapFactor, Lit(100, 1))),
         totalCoilsNeeded |-> Ceil(Div(totalWithScrap, BUSINESS_CONFIG.standardRollLength)),
         coilWidth |-> coilWidth,
         pricing |-> pricingOf(totalWithScrap)]

\* the handler: the response it sends for a request body
optimizeCoil(reqBody) ==
    LET coilWidth == IF "coilWidth" \in DOMAIN reqBody
                     THEN reqBody.coilWidth ELSE DefaultCoilWidth
    IN  IF noItems(reqBody)
        THEN [status |-> 400, error |-> "No items provided"]
        ELSE LET g == colorGroups(reqBody.items)
             IN  IF g.threw
                 THEN [status |-> 500, error |-> "Optimization failed",
                       message |-> "colorGroups[color].push is not a function"]
                 ELSE LET optimization ==
                              [k \in 1..Len(g.groups) |->
                                  optimizeGroup(reqBody.items, g.groups[k], coilWidth)]
                      IN  [status |-> 200,
                           optimization |-> optimization,
                           summary |-> summaryOf(optimization, coilWidth)]

----------------------------------------------------------------------------
(* The server *)

\* pc, body, res: the optimize request being served, its body, its response
\* PARADIGM_CONFIG, authToken, tokenExpiry: the module-level variables
\* now: the clock, in hours
\* handlers: where the inventory and the orders request in progress stand
\* prev: an optimize answer a client has kept, with the token of that moment
\* sampleRes: the response of the sample endpoint
VARIABLES pc, body, res, PARADIGM_CONFIG, authToken, tokenExpiry, now,
          handlers, prev, sampleRes

vars == <<pc, body, res, PARADIGM_CONFIG, authToken, tokenExpiry, now,
          handlers, prev, sampleRes>>

\* let authToken = null; let tokenExpiry = null
Null == [null |-> TRUE]

\* a value that is not null
Some(v) == [null |-> FALSE, value |-> v]

\* what loadSecrets leaves in PARADIGM_CONFIG in production
ProductionConfig ==
    [baseURL |-> "https://greenfieldapi.para-apps.com",
     apiKey |-> "secret:paradigm-api-key",
     username |-> "web_admin",
     password |-> "secret:paradigm-password"]

\* what loadSecrets leaves in PARADIGM_CONFIG in development
DevelopmentConfig ==
    [baseURL |-> "env:PARADIGM_API_URL",
     apiKey |-> "env:PARADIGM_API_KEY",
     username |-> "env:PARADIGM_USERNAME",
     password |-> "env:PARADIGM_PASSWORD"]

\* the server listens: loadSecrets has run, no token has been fetched and
\* no request has been answered yet
Init ==
    /\ pc = "listening"
    /\ body = <<>>
    /\ res = [status |-> 0]
    /\ PARADIGM_CONFIG = ProductionConfig
    /\ authToken = Null
    /\ tokenExpiry = Null
    /\ now = 0
    /\ handlers = [inventory |-> "idle", orders |-> "idle"]
    /\ prev = [set |-> FALSE]
    /\ sampleRes = [status |-> 0]

\* PostOptimizeCoilOf that also forgets the Paradigm token
PostOptimizeCoilOf_dropsToken(B) ==
    /\ pc = "listening"
    /\ \E b \in B :
        /\ body' = b
        /\ res' = optimizeCoil(b)
    /\ pc' = "responded"
    /\ authToken' = Null
    /\ UNCHANGED <<PARADIGM_CONFIG, tokenExpiry>>
    /\ UNCHANGED <<now, handlers, prev, sampleRes>>

\* a POST /api/optimize/coil with a body of B arrives and is answered; the
\* handler has no await, so it runs to its response in one step; it assigns
\* none of the module-level variables
PostOptimizeCoilOf(B) ==
    /\ pc = "listening"
    /\ \E b \in B :
        /\ body' = b
        /\ res' = optimizeCoil(b)
    /\ pc' = "responded"
    /\ UNCHANGED <<PARADIGM_CONFIG, authToken, tokenExpiry>>
    /\ UNCHANGED <<now, handlers, prev, sampleRes>>

PostOptimizeCoil == PostOptimizeCoilOf(Bodies)

\* the response has been sent: the request and response objects are dropped
\* and the server waits for the next request
EndRequest ==
    /\ pc = "responded"
    /\ pc' = "listening"
    /\ body' = <<>>
    /\ res' = [status |-> 0]
    /\ UNCHANGED <<PARADIGM_CONFIG, authToken, tokenExpiry>>
    /\ UNCHANGED <<now, handlers, prev, sampleRes>>

Next == PostOptimizeCoil \/ EndRequest

Spec == Init /\ [][Next]_vars

----------------------------------------------------------------------------
(* The requests that talk to Paradigm, interleaved with optimize requests *)

\* Bounds: the last hour of the clock
MaxClock == 2

\* Token expires in 1 hour (3600000 ms)
TokenLifetime == 1

\* the tokens Paradigm answers with (response.data)
Tokens == {"token-1", "token-2"}

\* authToken && tokenExpiry && new Date() < tokenExpiry
tokenIsValid == ~authToken.null /\ ~tokenExpiry.null /\ now < tokenExpiry.value

\* handler h calls authenticate(): with a valid token it goes on to its
\* fetch, otherwise it awaits the token request
authenticateCall(h) ==
    handlers' = [handlers EXCEPT ![h] = IF tokenIsValid THEN "fetch" ELSE "auth"]

\* the optimize request bodies clients send while these requests run
ProbeLines ==
    {Line(AshGray, [quantity |-> Lit(45, 1), length |-> Lit(16, 1), width |-> Lit(43875, 1000)]),
     Line(ashgray, [quantity |-> Lit(15, 1), length |-> Lit(10, 1), width |-> Lit(14, 1)])}

ProbeBodies ==
    {<<>>}
    \cup {[items |-> <<l>>] : l \in ProbeLines}
    \cup {[items |-> <<l>>, coilWidth |-> Lit(20, 1)] : l \in ProbeLines}

\* loadSecrets has run in production or in development
InitC11 ==
    /\ pc = "listening"
    /\ body = <<>>
    /\ res = [status |-> 0]
    /\ PARADIGM_CONFIG \in {ProductionConfig, DevelopmentConfig}
    /\ authToken = Null
    /\ tokenExpiry = Null
    /\ now = 0
    /\ handlers = [inventory |-> "idle", orders |-> "idle"]
    /\ prev = [set |-> FALSE]
    /\ sampleRes = [status |-> 0]

\* GET /api/inventory/metal-roofing arrives and awaits the cache document
GetInventoryMetalRoofing ==
    /\ handlers.inventory = "idle"
    /\ handlers' = [handlers EXCEPT !.inventory = "cache"]
    /\ UNCHANGED <<pc, body, res, PARADIGM_CONFIG, authToken, tokenExpiry, now,
                   prev, sampleRes>>

\* the cache document arrives: fresh, it is the response; otherwise the
\* handler calls authenticate()
InventoryCacheRead ==
    /\ handlers.inventory = "cache"
    /\ \/ handlers' = [handlers EXCEPT !.inventory = "idle"]
       \/ authenticateCall("inventory")
    /\ UNCHANGED <<pc, body, res, PARADIGM_CONFIG, authToken, tokenExpiry, now,
                   prev, sampleRes>>

\* GET /api/orders arrives and calls authenticate()
GetOrders ==
    /\ handlers.orders = "idle"
    /\ authenticateCall("orders")
    /\ UNCHANGED <<pc, body, res, PARADIGM_CONFIG, authToken, tokenExpiry, now,
                   prev, sampleRes>>

\* authenticate(): the token request of handler h is answered; the token and
\* its expiry are stored
AuthenticateResolve ==
    \E h \in {"inventory", "orders"} :
        /\ handlers[h] = "auth"
        /\ \E t \in Tokens : authToken' = Some(t)
        /\ tokenExpiry' = Some(now + TokenLifetime)
        /\ handlers' = [handlers EXCEPT ![h] = "fetch"]
        /\ UNCHANGED <<pc, body, res, PARADIGM_CONFIG, now, prev, sampleRes>>

\* authenticate(): the token request of handler h fails; authenticate
\* throws and the handler answers 500
AuthenticateReject ==
    \E h \in {"inventory", "orders"} :
        /\ handlers[h] = "auth"
        /\ handlers' = [handlers EXCEPT ![h] = "idle"]
        /\ UNCHANGED <<pc, body, res, PARADIGM_CONFIG, authToken, tokenExpiry, now,
                       prev, sampleRes>>

\* the Paradigm data request of handler h ends and the handler answers
ParadigmFetchEnds ==
    \E h \in {"inventory", "orders"} :
        /\ handlers[h] = "fetch"
        /\ handlers' = [handlers EXCEPT ![h] = "idle"]
        /\ UNCHANGED <<pc, body, res, PARADIGM_CONFIG, authToken, tokenExpiry, now,
                       prev, sampleRes>>

\* an hour passes
Tick ==
    /\ now < MaxClock
    /\ now' = now + 1
    /\ UNCHANGED <<pc, body, res, PARADIGM_CONFIG, authToken, tokenExpiry,
                   handlers, prev, sampleRes>>

\* the client keeps the optimize answer it has received
KeepAnswer ==
    /\ pc = "responded"
    /\ prev' = [set |-> TRUE, body |-> body, res |-> res, authToken |-> authToken]
    /\ UNCHANGED <<pc, body, res, PARADIGM_CONFIG, authToken, tokenExpiry, now,
                   handlers, sampleRes>>

NextC11 ==
    \/ PostOptimizeCoilOf(ProbeBodies)
    \/ EndRequest
    \/ KeepAnswer
    \/ GetInventoryMetalRoofing
    \/ InventoryCacheRead
    \/ GetOrders
    \/ AuthenticateResolve
    \/ AuthenticateReject
    \/ ParadigmFetchEnds
    \/ Tick

SpecC11 == InitC11 /\ [][NextC11]_vars

----------------------------------------------------------------------------
(* GET /api/test/optimize: the second copy of the optimisation *)

\* const sampleItems = [...]
sampleItems ==
    << [productId |-> "A4AG", description |-> "24ga Ag Panel (Ash Gray)",
        color |-> AshGray, quantity |-> Lit(45, 1), length |-> Lit(16, 1),
        width |-> Lit(43875, 1000)],
       [productId |-> "RIDGE-AG", description |-> "Ridge Cap (Ash Gray)",
        color |-> AshGray, quantity |-> Lit(15, 1), length |-> Lit(10, 1),
        width |-> Lit(14, 1)],
       [productId |-> "HIP-AG", description |-> "Hip Cap (Ash Gray)",
        color |-> AshGray, quantity |-> Lit(20, 1), length |-> Lit(10, 1),
        width |-> Lit(10, 1)] >>

\* { items: sampleItems, coilWidth: 43.875 }
sampleInput == [items |-> sampleItems, coilWidth |-> Lit(43875, 1000)]

\* items.forEach(item => ... colorGroups[color].push(item)) of the copy, from
\* item i on
RECURSIVE testGroupItems(_, _, _)
testGroupItems(items, i, groups) ==
    IF i > Len(items)
    THEN [threw |-> FALSE, groups |-> groups]
    ELSE LET color == IF "color" \in DOMAIN items[i] /\ items[i].color # <<>>
                      THEN items[i].color ELSE UNSPECIFIED
             own == {k \in 1..Len(groups) : groups[k].color = color}
         IN  IF own # {}
             THEN testGroupItems(items, i + 1,
                      [k \in 1..Len(groups) |->
                          IF k \in own
                          THEN [groups[k] EXCEPT !.items = Append(@, i)]
                          ELSE groups[k]])
             ELSE IF color \in ObjectPrototypeKeys
             THEN [threw |-> TRUE, groups |-> groups]
             ELSE testGroupItems(items, i + 1,
                                 Append(groups, [color |-> color, items |-> <<i>>]))

\* testIsFullWidth with > for >=
testIsFullWidth_strict(item, coilWidth) ==
    Ge(item.width, coilWidth) /\ ~Ge(coilWidth, item.width)

\* item.width >= coilWidth in the copy
testIsFullWidth(item, coilWidth) == Ge(item.width, coilWidth)

\* the pattern the copy pushes for one line
testPattern(item, coilWidth) ==
    IF testIsFullWidth(item, coilWidth)
    THEN [type |-> "Full Width",
          product |-> item.productId,
          quantity |-> item.quantity,
          lengthEach |-> item.length,
          totalFeet |-> Mul(item.quantity, item.length)]
    ELSE LET piecesPerRow == Floor(Div(coilWidth, item.width))
             rowsNeeded == Ceil(Div(item.quantity, piecesPerRow))
             feetNeeded == Mul(rowsNeeded, item.length)
         IN  [type |-> "Nested Trim",
              product |-> item.productId,
              quantity |-> item.quantity,
              width |-> item.width,
              piecesPerRow |-> piecesPerRow,
              rowsNeeded |-> rowsNeeded,
              lengthEach |-> item.length,
              totalFeet |-> feetNeeded,
              efficiency |->
                  Percent(ToFixed(Mul(Div(Mul(item.width, piecesPerRow), coilWidth),
                                      Lit(100, 1)), 1))]

\* linearFeet of the copy after the first i lines of a group
RECURSIVE testLinearFeetAfter(_, _)
testLinearFeetAfter(patterns, i) ==
    IF i = 0 THEN Lit(0, 1)
    ELSE Add(testLinearFeetAfter(patterns, i - 1), patterns[i].totalFeet)

\* optimization[color] of the copy: no coil product is selected
testOptimizeGroup(items, group, coilWidth) ==
    LET patterns == [j \in 1..Len(group.items) |->
                        testPattern(items[group.items[j]], coilWidth)]
        linearFeet == testLinearFeetAfter(patterns, Len(patterns))
        scrapAmount == Mul(linearFeet, BUSINESS_CONFIG.scrapFactor)
        totalNeeded == Add(linearFeet, scrapAmount)
    IN  [color |-> group.color,
         items |-> group.items,
         patterns |-> patterns,
         baseLinearFeet |-> linearFeet,
         scrapFeet |-> scrapAmount,
         totalLinearFeet |-> totalNeeded,
         coilsNeeded |-> Ceil(Div(totalNeeded, BUSINESS_CONFIG.standardRollLength)),
         efficiency |-> Percent(ToFixed(Mul(Div(linearFeet, totalNeeded), Lit(100, 1)), 2))]

\* totalLinearFeet and totalWithScrap of the copy after the first k groups
RECURSIVE testTotalsAfter(_, _)
testTotalsAfter(optimization, k) ==
    IF k = 0 THEN [totalLinearFeet |-> Lit(0, 1), totalWithScrap |-> Lit(0, 1)]
    ELSE LET t == testTotalsAfter(optimization, k - 1)
         IN  [totalLinearFeet |-> Add(t.totalLinearFeet, optimization[k].baseLinearFeet),
              totalWithScrap |-> Add(t.totalWithScrap, optimization[k].totalLinearFeet)]

\* the summary object of the copy, with its pricing
testSummaryOf(optimization, coilWidth) ==
    LET t == testTotalsAfter(optimization, Len(optimization))
        totalLinearFeet == t.totalLinearFeet
        totalWithScrap == t.totalWithScrap
        materialCost == Mul(totalWithScrap, Lit(385, 100))
        laborCost == Mul(totalWithScrap, BUSINESS_CONFIG.pricing.laborPerFoot)
        totalCost == Add(materialCost, laborCost)
        sellPrice == Mul(totalCost, Add(Lit(1, 1), BUSINESS_CONFIG.pricing.marginPercent))
    IN  [totalLinearFeet |-> ToFixed(totalLinearFeet, 2),
         scrapFeet |-> ToFixed(Sub(totalWithScrap, totalLinearFeet), 2),
         totalWithScrap |-> ToFixed(totalWithScrap, 2),
         scrapPercent |-> NumberPercent(Mul(BUSINESS_CONFIG.scrapFactor, Lit(100, 1))),
         totalCoilsNeeded |-> Ceil(Div(totalWithScrap, BUSINESS_CONFIG.standardRollLength)),
         coilWidth |-> coilWidth,
         pricing |->
            [materialCost |-> ToFixed(materialCost, 2),
             laborCost |-> ToFixed(laborCost, 2),
             totalCost |-> ToFixed(totalCost, 2),
             sellPrice |-> ToFixed(sellPrice, 2),
             margin |-> ToFixed(Sub(sellPrice, totalCost), 2),
             marginPercent |->
                Percent(ToFixed(Mul(BUSINESS_CONFIG.pricing.marginPercent, Lit(100, 1)), 0))]]

\* the try block of the sample handler on the object it destructures: there
\* is no test for an empty list, and the catch sends the message alone
testOptimize(input) ==
    LET coilWidth == IF "coilWidth" \in DOMAIN input
                     THEN input.coilWidth ELSE Lit(43875, 1000)
        g == testGroupItems(input.items, 1, <<>>)
    IN  IF g.threw
        THEN [status |-> 500, error |-> "colorGroups[color].push is not a function"]
        ELSE LET optimization ==
                     [k \in 1..Len(g.groups) |->
                         testOptimizeGroup(input.items, g.groups[k], coilWidth)]
             IN  [status |-> 200,
                  message |-> "Test optimization with sample data",
                  optimization |-> optimization,
                  summary |-> testSummaryOf(optimization, coilWidth)]

\* request bodies that carry an order-line list: those of Bodies, and the
\* three sample lines with and without the sample coil width
ListBodies ==
    {b \in Bodies : "items" \in DOMAIN b} \cup {sampleInput, [items |-> sampleItems]}

\* the sample handler's computation on the list and the width of the request
\* just answered
TestOptimizeOnBody ==
    /\ pc = "responded"
    /\ sampleRes' = testOptimize(body)
    /\ pc' = "compared"
    /\ UNCHANGED <<body, res, PARADIGM_CONFIG, authToken, tokenExpiry>>
    /\ UNCHANGED <<now, handlers, prev>>

\* GET /api/test/optimize, asked after an optimize request was answered
GetTestOptimize ==
    /\ pc = "responded"
    /\ sampleRes' = testOptimize(sampleInput)
    /\ pc' = "sampled"
    /\ UNCHANGED <<body, res, PARADIGM_CONFIG, authToken, tokenExpiry>>
    /\ UNCHANGED <<now, handlers, prev>>

\* both responses are delivered; the server waits for the next request
EndTestRequest ==
    /\ pc \in {"compared", "sampled"}
    /\ pc' = "listening"
    /\ body' = <<>>
    /\ res' = [status |-> 0]
    /\ sampleRes' = [status |-> 0]
    /\ UNCHANGED <<PARADIGM_CONFIG, authToken, tokenExpiry>>
    /\ UNCHANGED <<now, handlers, prev>>

NextC13 ==
    \/ PostOptimizeCoilOf(ListBodies)
    \/ EndRequest
    \/ TestOptimizeOnBody
    \/ GetTestOptimize
    \/ EndTestRequest

SpecC13 == Init /\ [][NextC13]_vars

----------------------------------------------------------------------------
(* Properties of the responses *)

\* a request has been answered
Answered == pc = "responded"

\* the request was answered with the optimisation result
Accepted == Answered /\ res.status = 200

\* the coil width the answered request asks for
RequestCoilWidth == IF "coilWidth" \in DOMAIN body THEN body.coilWidth ELSE DefaultCoilWidth

\* x > y
Gt(x, y) == Ge(x, y) /\ ~Ge(y, x)

Zero == Lit(0, 1)

One == Lit(1, 1)

IsInteger(x) == x.d = 1

\* the groups of the response, the lines of a group, and line j of group k
\* together with the pattern at the same position
Groups == 1..Len(res.optimization)

LinesOf(k) == 1..Len(res.optimization[k].items)

LineAt(k, j) == body.items[res.optimization[k].items[j]]

PatternAt(k, j) == res.optimization[k].patterns[j]

\* every line of the answered request satisfies Cond(line, pattern)
EveryLine(Cond(_, _)) ==
    \A k \in Groups : \A j \in LinesOf(k) : Cond(LineAt(k, j), PatternAt(k, j))

SomeLine(Cond(_, _)) ==
    \E k \in Groups : \E j \in LinesOf(k) : Cond(LineAt(k, j), PatternAt(k, j))

\* the sum of a sequence of numbers, added in order
RECURSIVE SumTo(_, _)
SumTo(xs, i) == IF i = 0 THEN Zero ELSE Add(SumTo(xs, i - 1), xs[i])

Sum(xs) == SumTo(xs, Len(xs))

\* the request names an order-line list, has a line with a non-positive
\* quantity, length or width, or a non-positive coil width
HasNonPositive ==
    \/ ~Gt(RequestCoilWidth, Zero)
    \/ /\ "items" \in DOMAIN body
       /\ \E i \in 1..Len(body.items) :
            \/ ~Gt(body.items[i].quantity, Zero)
            \/ ~Gt(body.items[i].length, Zero)
            \/ ~Gt(body.items[i].width, Zero)

\* C1: a request whose order-line list is absent or empty is answered with
\* status 400 and the error 'No items provided', and the response holds
\* neither an optimisation breakdown nor a summary
C1_EmptyListRejected ==
    (Answered /\ (~("items" \in DOMAIN body) \/ body.items = <<>>))
        => /\ res.status = 400
           /\ res.error = "No items provided"
           /\ "optimization" \notin DOMAIN res
           /\ "summary" \notin DOMAIN res

\* an empty list came with a coil width and was refused
C1_Witness ==
    /\ Answered
    /\ "items" \in DOMAIN body /\ body.items = <<>>
    /\ "coilWidth" \in DOMAIN body
    /\ res.status = 400

\* C2: a request with a non-positive quantity, length, width or coil width
\* is rejected: its response is an error and holds neither an optimisation
\* breakdown nor a summary
C2_NonPositiveRejected ==
    (Answered /\ HasNonPositive)
        => /\ res.status # 200
           /\ "optimization" \notin DOMAIN res
           /\ "summary" \notin DOMAIN res

\* C3: a line whose width is at least the coil width (equal included) gets a
\* 'Full Width' pattern whose totalFeet is quantity * length, without
\* piecesPerRow or rowsNeeded, and a group's baseLinearFeet is the sum of
\* what its lines add: quantity * length for each such line
C3_FullWidthLine(line, p) ==
    Ge(line.width, RequestCoilWidth)
        => /\ p.type = "Full Width"
           /\ p.totalFeet = Mul(line.quantity, line.length)
           /\ "piecesPerRow" \notin DOMAIN p
           /\ "rowsNeeded" \notin DOMAIN p

C3_Added(k, j) ==
    IF Ge(LineAt(k, j).width, RequestCoilWidth)
    THEN Mul(LineAt(k, j).quantity, LineAt(k, j).length)
    ELSE PatternAt(k, j).totalFeet

C3_FullWidthFeet ==
    Accepted =>
        /\ EveryLine(C3_FullWidthLine)
        /\ \A k \in Groups :
              res.optimization[k].baseLinearFeet
                  = Sum([j \in LinesOf(k) |-> C3_Added(k, j)])

\* a line exactly as wide as the coil was answered with quantity * length
C3_WitnessLine(line, p) ==
    /\ line.width = RequestCoilWidth
    /\ Gt(line.quantity, Zero) /\ Gt(line.length, Zero)
    /\ p.type = "Full Width"
    /\ p.totalFeet = Lit(720, 1)

C3_Witness == Accepted /\ SomeLine(C3_WitnessLine)

\* C4: for a line with 0 < width < coil width and quantity >= 1 the pattern
\* is nested, piecesPerRow is the integer with
\* piecesPerRow * width <= coilWidth < (piecesPerRow + 1) * width,
\* rowsNeeded is the least integer r with r * piecesPerRow >= quantity, and
\* totalFeet is rowsNeeded * length
C4_NestedLine(line, p) ==
    (Gt(line.width, Zero) /\ Gt(RequestCoilWidth, line.width) /\ Ge(line.quantity, One))
        => /\ p.type = "Nested Trim"
           /\ IsInteger(p.piecesPerRow)
           /\ Ge(RequestCoilWidth, Mul(p.piecesPerRow, line.width))
           /\ Gt(Mul(Add(p.piecesPerRow, One), line.width), RequestCoilWidth)
           /\ IsInteger(p.rowsNeeded)
           /\ Ge(Mul(p.rowsNeeded, p.piecesPerRow), line.quantity)
           /\ Gt(line.quantity, Mul(Sub(p.rowsNeeded, One), p.piecesPerRow))
           /\ p.totalFeet = Mul(p.rowsNeeded, line.length)

C4_NestedArithmetic == Accepted => EveryLine(C4_NestedLine)

\* 7 pieces 20 wide on the 43.875 coil: 2 per row, 4 rows, 42 feet
C4_WitnessLine(line, p) ==
    /\ line.quantity = Lit(7, 1) /\ line.width = Lit(20, 1)
    /\ p.type = "Nested Trim"
    /\ p.piecesPerRow = Lit(2, 1)
    /\ p.rowsNeeded = Lit(4, 1)
    /\ p.totalFeet = Lit(42, 1)

C4_Witness == Accepted /\ SomeLine(C4_WitnessLine)

\* C5: in an accepted response every nested pattern has piecesPerRow >= 1
\* (a nested line whose piecesPerRow is 0 ends the call in an error)
C5_NestedLine(line, p) ==
    p.type = "Nested Trim" => Ge(p.piecesPerRow, One)

C5_PiecesPerRowAtLeastOne == Accepted => EveryLine(C5_NestedLine)

\* the number a decimal string of the response denotes
Parse(str) ==
    IF str.text = "NaN" THEN NaN
    ELSE IF str.text = "Infinity" THEN (IF str.neg THEN Neg(Infinity) ELSE Infinity)
    ELSE Norm(IF str.neg THEN -1 ELSE 1, str.units, Pow10(str.digits))

\* the decimal string d.dd of a non-negative number of hundredths
Decimal2(hundredths) ==
    [text |-> "decimal", neg |-> FALSE, units |-> hundredths, digits |-> 2, suffix |-> ""]

\* per-group figures of the response, in group order
BaseFeet == [k \in Groups |-> res.optimization[k].baseLinearFeet]

ScrapFeet == [k \in Groups |-> res.optimization[k].scrapFeet]

TotalFeet == [k \in Groups |-> res.optimization[k].totalLinearFeet]

PatternFeet(k) == [j \in LinesOf(k) |-> PatternAt(k, j).totalFeet]

\* C6, the groups: scrapFeet is 5% of baseLinearFeet, totalLinearFeet is
\* baseLinearFeet + scrapFeet, baseLinearFeet is the sum of the patterns'
\* totalFeet
C6_GroupFigures ==
    \A k \in Groups :
        /\ BaseFeet[k] = Sum(PatternFeet(k))
        /\ ScrapFeet[k] = Mul(BaseFeet[k], Lit(5, 100))
        /\ TotalFeet[k] = Add(BaseFeet[k], ScrapFeet[k])

C7_Group(k) ==
    LET n == res.optimization[k].coilsNeeded
        feet == Add(BaseFeet[k], ScrapFeet[k])
    IN  IF IsFinite(feet)
        THEN /\ IsInteger(n)
             /\ Ge(Mul(n, Lit(100, 1)), feet)
             /\ Gt(feet, Mul(Sub(n, One), Lit(100, 1)))
        ELSE n = feet

C7_CoilsCoverFootage == Accepted => \A k \in Groups : C7_Group(k)

\* 45 full-width pieces of 16 ft: 720 base, 36 scrap, 756 total, 8 coils
C7_Witness ==
    /\ Accepted
    /\ \E k \in Groups :
          /\ BaseFeet[k] = Lit(720, 1)
          /\ ScrapFeet[k] = Lit(36, 1)
          /\ TotalFeet[k] = Lit(756, 1)
          /\ res.optimization[k].coilsNeeded = Lit(8, 1)

\* the pricing figures before formatting, from the global scrap-inflated total
C8_MaterialCost == Mul(Sum(TotalFeet), Lit(385, 100))

C8_LaborCost == Mul(Sum(TotalFeet), Lit(50, 100))

C8_TotalCost == Add(C8_MaterialCost, C8_LaborCost)

C8_SellPrice == Mul(C8_TotalCost, Add(One, Lit(30, 100)))

\* C8 as claimed, on requests whose quantities, lengths, widths and coil
\* width are all positive: with materialCost, laborCost, totalCost and
\* sellPrice derived from the global scrap-inflated total, the reported
\* margin is equal to sellPrice - totalCost and to totalCost * marginPercent
C8_PricingEqualsFigures ==
    (Accepted /\ ~HasNonPositive) =>
        LET p == res.summary.pricing
        IN  /\ StrictEq(Parse(p.margin), Sub(C8_SellPrice, C8_TotalCost))
            /\ StrictEq(Parse(p.margin), Mul(C8_TotalCost, Lit(30, 100)))

\* C8 as amended: the reported materialCost, laborCost, totalCost, sellPrice
\* and margin are the two-decimal strings (toFixed(2)) of the figures
\* derived once from the global scrap-inflated total, the margin being that
\* of sellPrice - totalCost; when the total is finite, sellPrice - totalCost
\* is totalCost * marginPercent
C8_PricingRoundsFigures ==
    Accepted =>
        LET p == res.summary.pricing
        IN  /\ p.materialCost = ToFixed(C8_MaterialCost, 2)
            /\ p.laborCost = ToFixed(C8_LaborCost, 2)
            /\ p.totalCost = ToFixed(C8_TotalCost, 2)
            /\ p.sellPrice = ToFixed(C8_SellPrice, 2)
            /\ p.margin = ToFixed(Sub(C8_SellPrice, C8_TotalCost), 2)
            /\ IsFinite(Sum(TotalFeet))
                  => /\ StrictEq(Sub(C8_SellPrice, C8_TotalCost),
                                 Mul(C8_TotalCost, Lit(30, 100)))
                     /\ p.margin = ToFixed(Mul(C8_TotalCost, Lit(30, 100)), 2)

\* two colour groups, 756 and 52.5 feet with scrap, priced together on
\* 808.5 feet: totalCost 3516.975 is reported as 3516.98 and the margin
\* 1055.0925 as 1055.09
C8_Witness ==
    /\ Accepted /\ ~HasNonPositive
    /\ Len(res.optimization) = 2
    /\ Sum(TotalFeet) = Lit(8085, 10)
    /\ res.summary.pricing.totalCost = Decimal2(351698)
    /\ res.summary.pricing.margin = Decimal2(105509)

\* C9: in an accepted response the groups partition the request's lines by
\* colour: every line is in exactly one group, once; the group's key is the
\* line's colour string as written, or "UNSPECIFIED" when the line has no
\* colour or the empty one; no two groups share a key; lines keep their
\* request order inside a group; a group has one pattern per line
C9_Places(i) ==
    {kj \in Groups \X (1..Len(body.items)) :
        /\ kj[2] \in LinesOf(kj[1])
        /\ res.optimization[kj[1]].items[kj[2]] = i}

C9_KeyOf(line) ==
    IF "color" \in DOMAIN line
    THEN (IF line.color = <<>> THEN UNSPECIFIED ELSE line.color)
    ELSE UNSPECIFIED

C9_GroupingPartitions ==
    Accepted =>
        /\ \A i \in 1..Len(body.items) : Cardinality(C9_Places(i)) = 1
        /\ \A k \in Groups :
              /\ \A j \in LinesOf(k) :
                    /\ res.optimization[k].items[j] \in 1..Len(body.items)
                    /\ res.optimization[k].color = C9_KeyOf(LineAt(k, j))
              /\ \A j1, j2 \in LinesOf(k) :
                    j1 < j2 => res.optimization[k].items[j1] < res.optimization[k].items[j2]
              /\ Len(res.optimization[k].patterns) = Len(res.optimization[k].items)
        /\ \A k1, k2 \in Groups :
              k1 # k2 => res.optimization[k1].color # res.optimization[k2].color

\* two lines whose colours differ only in case landed in two groups
C9_Witness ==
    /\ Accepted
    /\ Len(body.items) = 2
    /\ "color" \in DOMAIN body.items[1] /\ "color" \in DOMAIN body.items[2]
    /\ body.items[1].color = AshGray
    /\ body.items[2].color = ashgray
    /\ Len(res.optimization) = 2
    /\ res.optimization[1].items = <<1>>
    /\ res.optimization[2].items = <<2>>

\* C10: recommendedCoil of a group is widthPrefix + '29' + code, widthPrefix
\* being 'CO20' when the coil width is 20 and 'CO43875' otherwise, code the
\* short code of the table entry whose name is the group's colour ignoring
\* case, 'CUSTOM' when there is none; "UNSPECIFIED" gets 'CUSTOM'; groups
\* whose colours differ only in case get the same id; groups with the same
\* quantities, lengths and widths have the same footage and coil count
\* whatever their id
C10_Prefix ==
    IF RequestCoilWidth = Lit(20, 1) THEN <<"C", "O", "2", "0">> ELSE <<"C", "O", "4", "3", "8", "7", "5">>

C10_Matches(color) ==
    {e \in {PRODUCT_CATEGORIES.colors[n] : n \in 1..Len(PRODUCT_CATEGORIES.colors)} :
        toLowerCase(e.name) = toLowerCase(color)}

C10_Shapes(k) ==
    [j \in LinesOf(k) |->
        <<LineAt(k, j).quantity, LineAt(k, j).length, LineAt(k, j).width>>]

C10_Figures(k) ==
    <<BaseFeet[k], ScrapFeet[k], TotalFeet[k], res.optimization[k].coilsNeeded,
      res.optimization[k].patterns>>

C10_CoilProduct ==
    Accepted =>
        /\ \A k \in Groups :
              LET g == res.optimization[k]
              IN  /\ \A e \in C10_Matches(g.color) :
                        g.recommendedCoil = C10_Prefix \o <<"2", "9">> \o e.code
                  /\ C10_Matches(g.color) = {}
                        => g.recommendedCoil = C10_Prefix \o <<"2", "9">> \o CUSTOM
                  /\ g.color = UNSPECIFIED
                        => g.recommendedCoil = C10_Prefix \o <<"2", "9">> \o CUSTOM
        /\ \A k1, k2 \in Groups :
              /\ toLowerCase(res.optimization[k1].color) = toLowerCase(res.optimization[k2].color)
                    => res.optimization[k1].recommendedCoil = res.optimization[k2].recommendedCoil
              /\ C10_Shapes(k1) = C10_Shapes(k2) => C10_Figures(k1) = C10_Figures(k2)

\* 'Ash Gray' and 'ash gray' on the 20 inch coil both get CO2029AG, and a
\* group without colour gets CO2029CUSTOM
C10_Witness ==
    /\ Accepted
    /\ RequestCoilWidth = Lit(20, 1)
    /\ \E k1, k2 \in Groups :
          /\ res.optimization[k1].color = AshGray
          /\ res.optimization[k2].color = ashgray
          /\ res.optimization[k1].recommendedCoil = <<"C", "O", "2", "0", "2", "9", "A", "G">>
          /\ res.optimization[k2].recommendedCoil = <<"C", "O", "2", "0", "2", "9", "A", "G">>

\* an optimize request is answered in this step
C11_OptimizeStep == pc = "listening" /\ pc' = "responded"

----------------------------------------------------------------------------
(* C12 *)

\* the coil counts of the colour groups, in the order of the response
C12_GroupCoils == [k \in Groups |-> res.optimization[k].coilsNeeded]

\* C12: in every optimize result the summary's totalCoilsNeeded equals the sum
\* of coilsNeeded over all colour groups.
C12_TotalCoilsIsSum ==
    Accepted => res.summary.totalCoilsNeeded = Sum(C12_GroupCoils)

\* two colours of ten full-width 10 ft pieces each: 105 ft and 2 coils per
\* colour, 210 ft and 3 coils in the summary
C12_TwoColours ==
    /\ Accepted
    /\ Len(res.optimization) = 2
    /\ \A k \in Groups : /\ TotalFeet[k] = Lit(105, 1)
                         /\ res.optimization[k].coilsNeeded = Lit(2, 1)
    /\ res.summary.totalCoilsNeeded = Lit(3, 1)

----------------------------------------------------------------------------
(* C13 *)

\* group k of the copy is group k of the live response without recommendedCoil
C13_SameGroup(k) ==
    /\ "recommendedCoil" \in DOMAIN res.optimization[k]
    /\ DOMAIN sampleRes.optimization[k] = DOMAIN res.optimization[k] \ {"recommendedCoil"}
    /\ \A f \in DOMAIN sampleRes.optimization[k] :
          sampleRes.optimization[k][f] = res.optimization[k][f]

\* the copy's result is the live result but for recommendedCoil and message
C13_SameResult ==
    /\ res.status = 200
    /\ sampleRes.status = 200
    /\ DOMAIN sampleRes = DOMAIN res \cup {"message"}
    /\ sampleRes.message = "Test optimization with sample data"
    /\ Len(sampleRes.optimization) = Len(res.optimization)
    /\ \A k \in Groups : C13_SameGroup(k)
    /\ sampleRes.summary = res.summary

\* both copies failed with the same exception; the copy sends its message as
\* the error, the live handler under a fixed error
C13_SameFailure ==
    /\ res.status = 500
    /\ sampleRes.status = 500
    /\ res.error = "Optimization failed"
    /\ sampleRes.error = res.message

\* the request just answered carried the three sample lines at 43.875
C13_SampleLines ==
    /\ "items" \in DOMAIN body
    /\ body.items = sampleItems
    /\ RequestCoilWidth = Lit(43875, 1000)

============================================================================
